---- MODULE Spec2Model ----
(***************************************************************************)
(* Static feature extractor (ControlFlowExtractor.cpp), branch-history     *)
(* instrumenter (BranchHistoryInstrumenter.cpp) and runtime log sink       *)
(* (DynamicLog.cpp).                                                       *)
(*                                                                         *)
(* A routine is a record [name, blocks, loops]; a block is a record         *)
(* [name, insts]; an instruction is a record [op, ops, succs] where succs   *)
(* is the successor list of a terminator (block indices, in operand order)  *)
(* and ops the operand list.  An instruction is identified, as by its       *)
(* address in the code, by the key <<routine name, block index, index>>.    *)
(***************************************************************************)
EXTENDS Integers, Sequences, FiniteSets, TLC

VARIABLES
  M,                 \* the routines handed to the pass, in order
  done,              \* number of routines the pass manager has run the pass on
  AllFeatures,       \* std::map<Instruction*, InstructionFeatures>
  BranchIDs,         \* std::map<Instruction*, uint64_t>
  DataDependencies,  \* std::map<Instruction*, std::set<Instruction*>>
  BlockLabels,       \* std::map<BasicBlock*, std::string>
  BranchCounter,     \* uint64_t BranchCounter
  errs,              \* the feature report written to errs()
  logFile,           \* std::ofstream logFile: [is_open, failbit, path, buf]
  programName,       \* const char* programName
  environ,           \* the value of PROGRAM_NAME in the environment
  dirExists,         \* whether the directory branch_history_logs exists
  writable,          \* whether the file system lets the log file be opened for writing
  files,             \* the files of branch_history_logs: path -> [exists, data]
  cerr,              \* the messages written to std::cerr
  probes,            \* number of times the directory has been probed
  attempts,          \* number of calls of logFile.open
  opens,             \* number of times the operating system opened a log file
  history,           \* the calls of logBranchOutcome so far, in call order
  thr,               \* per thread: where it is in logBranchOutcome, and its locals
  MI,                \* the routines handed to the instrumenter, in order
  instrumented,      \* the routines the instrumenter has rewritten, in order
  Instrumenter_BranchCounter  \* static uint64_t BranchCounter of BranchHistoryInstrumenter::run

extractorVars == <<M, done, AllFeatures, BranchIDs, DataDependencies, BlockLabels,
                   BranchCounter, errs>>

sinkVars == <<logFile, programName, environ, dirExists, writable, files, cerr,
              probes, attempts, opens, history, thr>>

instrumenterVars == <<MI, instrumented, Instrumenter_BranchCounter>>

vars == <<extractorVars, sinkVars, instrumenterVars>>

----------------------------------------------------------------------------
(* Bounds of the model and program constants *)

MAX_DISTANCE == 999

MaxK == 3          \* non-control instructions before the terminator of a short block
LongSlack == 1     \* long blocks have MAX_DISTANCE-1 .. MAX_DISTANCE+LongSlack of them
MaxBlocks == 2     \* blocks of a routine in the family of control-flow graphs
MaxLoopBlocks == 3 \* blocks of a routine in the family of loop nests
MaxInsts == 3      \* instructions of the loop block in the family of data flows
MaxCond == 2       \* two-way branches of a routine in a module of several routines
MaxFuncs == 3      \* routines of a module
MaxCalls == 3      \* calls of logBranchOutcome in a run of the single-threaded program
NThreads == 2      \* threads of the multi-threaded program, each logging one event
MaxPairFuncs == 2 \* routines handed to the extractor and to the instrumenter in one process

----------------------------------------------------------------------------
(* Generic helpers *)

\* Evaluate v once and hand the value to Op (a strict let).
Let(v, Op(_)) == CHOOSE r \in {Op(x) : x \in {v}} : TRUE


EmptyMap == [k \in {} |-> 0]

\* m[k] = v of a std::map
Put(m, k, v) == [x \in DOMAIN m \cup {k} |-> IF x = k THEN v ELSE m[x]]

\* m with the entries of n written over it
Overwrite(m, n) == [x \in DOMAIN m \cup DOMAIN n |-> IF x \in DOMAIN n THEN n[x] ELSE m[x]]

----------------------------------------------------------------------------
(* The routine representation read by the pass *)

Inst(op, ops, succs) == [op |-> op, ops |-> ops, succs |-> succs]

BlockIdx(F) == 1 .. Len(F.blocks)
InstsOf(F, b) == F.blocks[b].insts
InstIdx(F, b) == 1 .. Len(InstsOf(F, b))
Key(F, b, i) == <<F.name, b, i>>
KeysOfBlock(F, b) == {Key(F, b, i) : i \in InstIdx(F, b)}
KeysOf(F) == UNION {KeysOfBlock(F, b) : b \in BlockIdx(F)}

getTerminator(F, b) == InstsOf(F, b)[Len(InstsOf(F, b))]

\* successors(&BB): one entry per successor operand of the terminator
successors(F, b) == getTerminator(F, b).succs

\* predecessors(&BB): one entry per use of BB by a terminator, so a block
\* that names BB in two successor slots is listed twice
RECURSIVE predsFrom(_, _, _)
predsFrom(F, b, p) ==
  IF p > Len(F.blocks) THEN <<>>
  ELSE SelectSeq([s \in 1 .. Len(successors(F, p)) |->
                    IF successors(F, p)[s] = b THEN p ELSE 0], LAMBDA x : x # 0)
       \o predsFrom(F, b, p + 1)
predecessors(F, b) == predsFrom(F, b, 1)

isaBranchInst(I) == I.op = "br"

\* BranchInst::isConditional(): a conditional branch has three operands
isConditional(I) == Len(I.ops) = 3

\* BranchInst::getCondition(), SwitchInst::getCondition()
getCondition(I) == I.ops[1]

\* Operands: an instruction of routine fn at (b, i), a routine parameter, a
\* literal integer or floating-point constant, a basic block (successor
\* operand of a terminator), or any other constant (a global, null)
InstOp(fn, b, i, ptr) == [k |-> "inst", fn |-> fn, b |-> b, i |-> i, ptr |-> ptr]
ArgOp(ptr) == [k |-> "arg", fn |-> "", b |-> 0, i |-> 0, ptr |-> ptr]
ConstOp == [k |-> "const", fn |-> "", b |-> 0, i |-> 0, ptr |-> FALSE]
BlockOp == [k |-> "block", fn |-> "", b |-> 0, i |-> 0, ptr |-> FALSE]
GlobalOp == [k |-> "global", fn |-> "", b |-> 0, i |-> 0, ptr |-> TRUE]

\* the opcode of the instruction an operand names ("" when it is none of F)
producerOp(F, V) ==
  IF V.k = "inst" /\ V.fn = F.name THEN InstsOf(F, V.b)[V.i].op ELSE ""

\* LoopInfo.  F.loops is the loop-nest forest as the set of the loops' block
\* sets: two loops are disjoint or one lies strictly inside the other.
TopLevelLoops(F) == {L \in F.loops : ~ \E P \in F.loops : L \subseteq P /\ L # P}
getSubLoops(F, L) ==
  {S \in F.loops : /\ S \subseteq L /\ S # L
                   /\ ~ \E P \in F.loops : S \subseteq P /\ S # P /\ P \subseteq L /\ P # L}
loopBlocks(L) == L
hasLoopFor(F, b) == \E L \in F.loops : b \in L
getLoopFor(F, b) ==
  CHOOSE L \in F.loops : b \in L /\ \A S \in F.loops : b \in S => L \subseteq S
getLoopDepth(F, L) == Cardinality({P \in F.loops : L \subseteq P})

\* isa<BranchInst> || isa<CallInst> || isa<ReturnInst> || isa<IndirectBrInst> || isa<SwitchInst>
isControlFlow(I) == I.op \in {"br", "call", "ret", "indirectbr", "switch"}

----------------------------------------------------------------------------
(* run(): feature initialisation *)

DefaultFeatures ==
  [in_loop |-> 0, dist_to_control_flow |-> 999, num_predecessors |-> 0,
   num_successors |-> 0, loop_depth |-> 0, op_type_is_memory_access |-> FALSE,
   op_type_is_register_operand |-> FALSE, op_type_is_immediate |-> FALSE,
   num_operands |-> 0]

initFeatures(F, feats) ==
  [k \in DOMAIN feats \cup KeysOf(F) |->
     IF k[1] = F.name THEN DefaultFeatures ELSE feats[k]]

----------------------------------------------------------------------------
(* computeDistanceToControlFlow *)

\* the seeding loop: blocks whose terminator is a control-flow instruction
seedBlocks(F) == SelectSeq([b \in BlockIdx(F) |-> b],
                           LAMBDA b : isControlFlow(getTerminator(F, b)))

seedDistances(F) ==
  [b \in BlockIdx(F) |-> IF isControlFlow(getTerminator(F, b)) THEN 0 ELSE MAX_DISTANCE]

\* one pass over predecessors(CurrentBB): st = [dist, work]
RECURSIVE relaxPreds(_, _, _, _)
relaxPreds(preds, j, CurrentDist, st) ==
  IF j > Len(preds) THEN st
  ELSE LET Pred == preds[j] IN
       IF st.dist[Pred] > CurrentDist + 1
       THEN relaxPreds(preds, j + 1, CurrentDist,
                       [dist |-> [st.dist EXCEPT ![Pred] = CurrentDist + 1],
                        work |-> Append(st.work, Pred)])
       ELSE relaxPreds(preds, j + 1, CurrentDist, st)

\* the worklist loop
RECURSIVE propagate(_, _)
propagate(F, st) ==
  IF st.work = <<>> THEN st.dist
  ELSE LET CurrentBB == Head(st.work)
           CurrentDist == st.dist[CurrentBB]
       IN propagate(F, relaxPreds(predecessors(F, CurrentBB), 1, CurrentDist,
                                  [dist |-> st.dist, work |-> Tail(st.work)]))

BlockDistances(F) == propagate(F, [dist |-> seedDistances(F), work |-> seedBlocks(F)])

\* body of the reverse loop over a block: the distance written for I and the
\* value intraBlockCounter has afterwards
scanStep(I, intraBlockCounter) ==
  IF isControlFlow(I)
  THEN [counter |-> 1, dist |-> <<0>>]
  ELSE [counter |-> IF intraBlockCounter < MAX_DISTANCE
                    THEN intraBlockCounter + 1 ELSE intraBlockCounter,
        dist |-> <<intraBlockCounter>>]

\* the reverse loop over instructions lo..hi of a block, entered with the
\* counter at `counter`: the upper half is visited first and leaves the
\* counter for the lower half.  dist lists the distances written, in program
\* order.
RECURSIVE reverseScan(_, _, _, _)
reverseScan(insts, lo, hi, counter) ==
  IF lo > hi THEN [counter |-> counter, dist |-> <<>>]
  ELSE IF lo = hi THEN scanStep(insts[lo], counter)
  ELSE LET mid == (lo + hi) \div 2 IN
       Let(reverseScan(insts, mid + 1, hi, counter), LAMBDA upper :
       Let(reverseScan(insts, lo, mid, upper.counter), LAMBDA lower :
         [counter |-> lower.counter, dist |-> lower.dist \o upper.dist]))

\* the second loop over a block: an instruction left at 999 takes BB_Dist
fallbackDist(d, BB_Dist) == IF d = 999 THEN BB_Dist ELSE d

\* distances of the instructions of block b, in program order
blockInstDistances(F, b, BB_Dist) ==
  Let(reverseScan(InstsOf(F, b), 1, Len(InstsOf(F, b)), 0).dist, LAMBDA scanned :
    [i \in InstIdx(F, b) |-> fallbackDist(scanned[i], BB_Dist)])

computeDistanceToControlFlow(F, feats) ==
  Let(BlockDistances(F), LAMBDA BD :
  Let([b \in BlockIdx(F) |-> blockInstDistances(F, b, BD[b])], LAMBDA D :
    [k \in DOMAIN feats |->
       IF k[1] = F.name
       THEN [feats[k] EXCEPT !.dist_to_control_flow = D[k[2]][k[3]]]
       ELSE feats[k]]))

----------------------------------------------------------------------------
(* inferBlockLabels *)

\* "<unnamed_" + std::to_string(unnamedCounter++) + ">"
unnamedLabel(n) == "<unnamed_" \o ToString(n) \o ">"

\* BlockLabels[&BB].find("<unnamed") != npos, for the labels the pass makes
isUnnamedLabel(F, l) == \E n \in 0 .. Len(F.blocks) : l = unnamedLabel(n)

\* the name a block is printed under in "label %<name>": its own name, or
\* its slot number when it has none
printedName(B) == IF B.name # "" THEN B.name ELSE B.slot

\* the "label %..." tokens of the printed branch, in order of appearance
printedLabels(F, BI) == [s \in 1 .. Len(BI.succs) |-> printedName(F.blocks[BI.succs[s]])]

\* succIdx counts from 0
getLabelFromBranch(labels, succIdx) ==
  IF succIdx < Len(labels) THEN labels[succIdx + 1] ELSE ""

\* the loop over the successors of one branch
RECURSIVE labelSuccessors(_, _, _, _, _)
labelSuccessors(F, BI, labels, i, bl) ==
  IF i >= Len(BI.succs) THEN bl
  ELSE LET label == getLabelFromBranch(labels, i)
           Succ == <<F.name, BI.succs[i + 1]>>
       IN labelSuccessors(F, BI, labels, i + 1,
                          IF label # "" THEN Put(bl, Succ, label) ELSE bl)

\* the loop over the blocks that assigns labels from branch instructions
RECURSIVE labelFromBranches(_, _, _)
labelFromBranches(F, b, bl) ==
  IF b > Len(F.blocks) THEN bl
  ELSE LET Term == getTerminator(F, b) IN
       labelFromBranches(F, b + 1,
         IF isaBranchInst(Term)
         THEN labelSuccessors(F, Term, printedLabels(F, Term), 0, bl)
         ELSE bl)

inferBlockLabels(F, bl0) ==
  LET placeholders == Overwrite(bl0, [k \in {<<F.name, b>> : b \in BlockIdx(F)} |->
                                        unnamedLabel(k[2] - 1)])
      branched == labelFromBranches(F, 1, placeholders)
  IN [k \in DOMAIN branched |->
        IF k[1] = F.name
        THEN LET name == F.blocks[k[2]].name IN
             IF name # "" /\ name # "0" /\ isUnnamedLabel(F, branched[k])
             THEN name ELSE branched[k]
        ELSE branched[k]]

\* the debug lines of inferBlockLabels
labelReport(F, bl) == [b \in BlockIdx(F) |-> <<"BB", bl[<<F.name, b>>], Key(F, b, 1)>>]

----------------------------------------------------------------------------
(* Loop passes *)

\* the first loop of markInstructionsInLoop
markBlocks(F, L, feats) ==
  [k \in DOMAIN feats |->
     IF k[1] = F.name /\ k[2] \in loopBlocks(L)
     THEN [feats[k] EXCEPT !.in_loop = 1] ELSE feats[k]]

RECURSIVE markInstructionsInLoop(_, _, _)
RECURSIVE markLoops(_, _, _)
\* for (Loop *L : Ls) markInstructionsInLoop(L)
markLoops(F, Ls, feats) ==
  IF Ls = {} THEN feats
  ELSE LET L == CHOOSE L \in Ls : TRUE
       IN markLoops(F, Ls \ {L}, markInstructionsInLoop(F, L, feats))

markInstructionsInLoop(F, L, feats) ==
  markLoops(F, getSubLoops(F, L), markBlocks(F, L, feats))

\* a depth that ignores the nesting
populateLoopDepth_flat(F, feats) ==
  [k \in DOMAIN feats |->
     IF k[1] = F.name /\ hasLoopFor(F, k[2])
     THEN [feats[k] EXCEPT !.loop_depth = 1]
     ELSE feats[k]]

\* "Populate loop depth for basic blocks"
populateLoopDepth(F, feats) ==
  [k \in DOMAIN feats |->
     IF k[1] = F.name /\ hasLoopFor(F, k[2])
     THEN [feats[k] EXCEPT !.loop_depth = getLoopDepth(F, getLoopFor(F, k[2]))]
     ELSE feats[k]]

----------------------------------------------------------------------------
(* assignBranchIDs *)

\* st = [ids, counter]
RECURSIVE assignBranchIDsFrom(_, _, _)
assignBranchIDsFrom(F, b, st) ==
  IF b > Len(F.blocks) THEN st
  ELSE LET BI == getTerminator(F, b) IN
       assignBranchIDsFrom(F, b + 1,
         IF isaBranchInst(BI) /\ isConditional(BI)
         THEN [ids |-> Put(st.ids, Key(F, b, Len(InstsOf(F, b))), st.counter),
               counter |-> st.counter + 1]
         ELSE st)

\* a counter that starts again at 0 in every routine
assignBranchIDs_perRoutine(F, ids, counter) ==
  assignBranchIDsFrom(F, 1, [ids |-> ids, counter |-> 0])

assignBranchIDs(F, ids, counter) ==
  assignBranchIDsFrom(F, 1, [ids |-> ids, counter |-> counter])

----------------------------------------------------------------------------
(* computeDataDependencies *)

\* the producers the operand loop inserts for instruction I
producersOf(F, I) ==
  {<<I.ops[u].fn, I.ops[u].b, I.ops[u].i>> :
     u \in {u \in 1 .. Len(I.ops) : I.ops[u].k = "inst" /\ I.ops[u].fn = F.name}}

\* the consumer inserted in place of the producer
computeDataDependencies_self(F, deps) ==
  LET consumers == {k \in KeysOf(F) : producersOf(F, InstsOf(F, k[2])[k[3]]) # {}}
  IN [k \in DOMAIN deps \cup consumers |->
        (IF k \in DOMAIN deps THEN deps[k] ELSE {}) \cup (IF k \in consumers THEN {k} ELSE {})]

computeDataDependencies(F, deps) ==
  LET consumers == {k \in KeysOf(F) : producersOf(F, InstsOf(F, k[2])[k[3]]) # {}}
  IN [k \in DOMAIN deps \cup consumers |->
        (IF k \in DOMAIN deps THEN deps[k] ELSE {})
        \cup (IF k \in consumers THEN producersOf(F, InstsOf(F, k[2])[k[3]]) ELSE {})]

----------------------------------------------------------------------------
(* computeBasicBlockFeatures, computeInstructionSpecificFeatures *)

numPreds(F, b) == Len(predecessors(F, b))
numSucc(F, b) == Len(successors(F, b))

computeBasicBlockFeatures(F, feats) ==
  Let([b \in BlockIdx(F) |-> <<numPreds(F, b), numSucc(F, b)>>], LAMBDA N :
    [k \in DOMAIN feats |->
       IF k[1] = F.name
       THEN [feats[k] EXCEPT !.num_predecessors = N[k[2]][1],
                             !.num_successors = N[k[2]][2]]
       ELSE feats[k]])

\* what the condition of a conditional branch or of a switch contributes
condIsMemory(F, Cond) == producerOp(F, Cond) \in {"load", "getelementptr"}
condIsImmediate(Cond) == Cond.k = "const"
condIsRegister(Cond) == Cond.k \in {"inst", "arg"}
scansCondition(I) == (isaBranchInst(I) /\ isConditional(I)) \/ I.op = "switch"

\* the flags are computed inside the loop over the operands
hasMemoryAccess(F, I) ==
  /\ Len(I.ops) > 0
  /\ \/ I.op \in {"load", "store"}
     \/ \E u \in 1 .. Len(I.ops) : I.ops[u].ptr
     \/ scansCondition(I) /\ condIsMemory(F, getCondition(I))
hasImmediate(F, I) ==
  /\ Len(I.ops) > 0
  /\ \/ \E u \in 1 .. Len(I.ops) : I.ops[u].k = "const"
     \/ scansCondition(I) /\ condIsImmediate(getCondition(I))
hasRegisterOperand(F, I) ==
  /\ Len(I.ops) > 0
  /\ \/ \E u \in 1 .. Len(I.ops) : I.ops[u].k \in {"inst", "arg"}
     \/ scansCondition(I) /\ ~ condIsImmediate(getCondition(I))
                          /\ condIsRegister(getCondition(I))

computeInstructionSpecificFeatures(F, feats) ==
  [k \in DOMAIN feats |->
     IF k[1] = F.name
     THEN LET I == InstsOf(F, k[2])[k[3]] IN
          [feats[k] EXCEPT !.num_operands = Len(I.ops),
                           !.op_type_is_memory_access = hasMemoryAccess(F, I),
                           !.op_type_is_register_operand = hasRegisterOperand(F, I),
                           !.op_type_is_immediate = hasImmediate(F, I)]
     ELSE feats[k]]

----------------------------------------------------------------------------
(* printFeatures *)

\* the lines printed for one instruction: a BranchID of -1 stands for no
\* "BranchID:" prefix; the "Depends on:" line follows when there are producers
instLines(k, feats, ids, deps) ==
  << <<"inst", k, IF k \in DOMAIN ids THEN ids[k] ELSE -1, feats[k]>> >>
  \o (IF k \in DOMAIN deps /\ deps[k] # {} THEN << <<"Depends on", deps[k]>> >> ELSE <<>>)

\* the loop over instructions lo..hi of block b
RECURSIVE blockLines(_, _, _, _, _, _, _)
blockLines(F, b, lo, hi, feats, ids, deps) ==
  IF lo > hi THEN <<>>
  ELSE IF lo = hi THEN instLines(Key(F, b, lo), feats, ids, deps)
  ELSE LET mid == (lo + hi) \div 2 IN
       blockLines(F, b, lo, mid, feats, ids, deps)
       \o blockLines(F, b, mid + 1, hi, feats, ids, deps)

reportOfBlock(F, b, bl, feats, ids, deps) ==
  << <<"label", bl[<<F.name, b>>]>> >>
  \o blockLines(F, b, 1, Len(InstsOf(F, b)), feats, ids, deps)

RECURSIVE reportOfBlocks(_, _, _, _, _, _)
reportOfBlocks(F, b, bl, feats, ids, deps) ==
  IF b > Len(F.blocks) THEN <<>>
  ELSE reportOfBlock(F, b, bl, feats, ids, deps) \o reportOfBlocks(F, b + 1, bl, feats, ids, deps)

printFeatures(F, bl, feats, ids, deps) ==
  << <<"function", F.name>> >> \o reportOfBlocks(F, 1, bl, feats, ids, deps)

\* DataDependencies[&I] in printFeatures creates the entry of every instruction
touchDependencies(F, deps) ==
  [k \in DOMAIN deps \cup KeysOf(F) |-> IF k \in DOMAIN deps THEN deps[k] ELSE {}]

----------------------------------------------------------------------------
(* run() *)

loopFeatures(F, feats) ==
  populateLoopDepth(F, markLoops(F, TopLevelLoops(F), initFeatures(F, feats)))

run(F) ==
  \E bl \in {inferBlockLabels(F, BlockLabels)} :
  \E looped \in {loopFeatures(F, AllFeatures)} :
  \E distanced \in {computeDistanceToControlFlow(F, looped)} :
  \E br \in {assignBranchIDs(F, BranchIDs, BranchCounter)} :
  \E deps \in {computeDataDependencies(F, DataDependencies)} :
  \E feats \in {computeInstructionSpecificFeatures(F, computeBasicBlockFeatures(F, distanced))} :
    /\ BlockLabels' = bl
    /\ AllFeatures' = feats
    /\ BranchIDs' = br.ids
    /\ BranchCounter' = br.counter
    /\ DataDependencies' = touchDependencies(F, deps)
    /\ errs' = errs \o labelReport(F, bl) \o printFeatures(F, bl, feats, br.ids, deps)

----------------------------------------------------------------------------
(* Input routines *)

\* a block without a name of its own is printed under its slot number
Block(b, insts) == [name |-> "", slot |-> ToString(b), insts |-> insts]

Add(ops) == Inst("add", ops, <<>>)
Call == Inst("call", <<GlobalOp>>, <<>>)
Ret == Inst("ret", <<>>, <<>>)
Unreachable == Inst("unreachable", <<>>, <<>>)
Br(t) == Inst("br", <<BlockOp>>, <<t>>)
CondBr(c, t, e) == Inst("br", <<c, BlockOp, BlockOp>>, <<t, e>>)
\* a switch on c: the default destination, then a constant and a destination
\* for each case
SwitchTo(c, succs) ==
  Inst("switch",
       <<c, BlockOp>> \o [u \in 1 .. 2 * (Len(succs) - 1) |->
                            IF u % 2 = 1 THEN ConstOp ELSE BlockOp],
       succs)
Switch(c, d, t) == SwitchTo(c, <<d, t>>)
\* an invoke with its normal and unwind destinations
Invoke(n, u) == Inst("invoke", <<BlockOp, BlockOp, GlobalOp>>, <<n, u>>)
IndirectBr(a, t) == Inst("indirectbr", <<a, BlockOp>>, <<t>>)

\* Sequences over S of length at most n
RECURSIVE SeqsUpTo(_, _)
SeqsUpTo(S, n) ==
  IF n = 0 THEN {<<>>}
  ELSE SeqsUpTo(S, n - 1) \cup {Append(s, x) : s \in SeqsUpTo(S, n - 1), x \in S}

\* Single-block routines: a body of additions and calls, then a return or
\* an unreachable
BodyRoutines ==
  {[name |-> "f", blocks |-> <<Block(1, body \o <<term>>)>>, loops |-> {}] :
     body \in SeqsUpTo({Add(<<ArgOp(FALSE), ConstOp>>), Call}, MaxK),
     term \in {Ret, Unreachable}}

\* k non-control instructions followed by a return
StraightLine(k) ==
  [name |-> "f",
   blocks |-> <<Block(1, [i \in 1 .. k + 1 |->
                            IF i = k + 1 THEN Ret ELSE Add(<<ArgOp(FALSE), ConstOp>>)])>>,
   loops |-> {}]

LongRoutines ==
  {StraightLine(k) : k \in (MAX_DISTANCE - 1) .. (MAX_DISTANCE + LongSlack)}

\* Routines of n blocks, each one load and a terminator whose destinations
\* are blocks of the routine: the first two blocks end in a terminator of any
\* kind, the blocks after them in a return, an unreachable or a one-way branch
Load == Inst("load", <<ArgOp(TRUE)>>, <<>>)
OneWayTerminators(n) ==
  {Ret, Unreachable} \cup {Br(t) : t \in 1 .. n}

Terminators(n) ==
  OneWayTerminators(n)
  \cup {CondBr(InstOp("f", 1, 1, FALSE), t, e) : t \in 1 .. n, e \in 1 .. n}
  \cup {Switch(InstOp("f", 1, 1, FALSE), d, t) : d \in 1 .. n, t \in 1 .. n}
  \cup {Invoke(t, u) : t \in 1 .. n, u \in 1 .. n}
  \cup {IndirectBr(InstOp("f", 1, 1, TRUE), t) : t \in 1 .. n}

CFGRoutinesOf(n) ==
  {[name |-> "f", blocks |-> [b \in 1 .. n |-> Block(b, <<Load, terms[b]>>)], loops |-> {}] :
     terms \in {ts \in [1 .. n -> Terminators(n)] :
                  \A b \in 1 .. n : b > 2 => ts[b] \in OneWayTerminators(n)}}

CFGRoutines == UNION {CFGRoutinesOf(n) : n \in 1 .. MaxBlocks}

\* Routines with loops.  The blocks are laid out 1..n and fall through to the
\* next one; a loop is an interval h..e of the layout whose last block
\* branches back to its header h.  Loops have distinct headers and are
\* disjoint or nested, so the intervals are the loop-nest forest of the graph.
Interval(h, e) == h .. e

LoopEnds(n) ==
  {ends \in [1 .. n -> 0 .. n] :
     /\ \A h \in 1 .. n : ends[h] = 0 \/ ends[h] >= h
     /\ \A h1, h2 \in 1 .. n :
          (h1 < h2 /\ ends[h1] # 0 /\ ends[h2] # 0 /\ h2 <= ends[h1]) => ends[h2] <= ends[h1]}

LoopsOf(n, ends) == {Interval(h, ends[h]) : h \in {h \in 1 .. n : ends[h] # 0}}

\* the headers block b branches back to, innermost first, then the next block
RECURSIVE backEdges(_, _, _)
backEdges(ends, b, h) ==
  IF h = 0 THEN <<>>
  ELSE (IF ends[h] = b THEN <<h>> ELSE <<>>) \o backEdges(ends, b, h - 1)

LoopTerminator(n, ends, b) ==
  LET succs == backEdges(ends, b, b) \o (IF b < n THEN <<b + 1>> ELSE <<>>)
      c == InstOp("f", b, 1, FALSE)
  IN IF Len(succs) = 0 THEN Ret
     ELSE IF Len(succs) = 1 THEN Br(succs[1])
     ELSE IF Len(succs) = 2 THEN CondBr(c, succs[1], succs[2])
     ELSE SwitchTo(c, succs)

LoopRoutine(n, ends) ==
  [name |-> "f",
   blocks |-> [b \in 1 .. n |-> Block(b, <<Load, LoopTerminator(n, ends, b)>>)],
   loops |-> LoopsOf(n, ends)]

LoopRoutines == {LoopRoutine(MaxLoopBlocks, ends) : ends \in LoopEnds(MaxLoopBlocks)}

\* Routines with data flow: an entry block, a loop block of m instructions
\* that branches back to itself, and an exit block.  Instruction i of the
\* loop block takes its operand from a parameter (src[i] = -1), a constant
\* (src[i] = 0) or instruction src[i] of the block; it is a phi (initial
\* value, value carried round the loop) when src[i] is not an earlier
\* instruction.
DepSources(m) == [1 .. m -> (-1) .. m]

DepInst(src, i) ==
  IF src[i] = -1 THEN Add(<<ArgOp(FALSE), ConstOp>>)
  ELSE IF src[i] = 0 THEN Add(<<ConstOp, ConstOp>>)
  ELSE IF src[i] < i THEN Add(<<InstOp("f", 2, src[i], FALSE), ConstOp>>)
  ELSE Inst("phi", <<ConstOp, InstOp("f", 2, src[i], FALSE)>>, <<>>)

DepRoutine(m, src) ==
  [name |-> "f",
   blocks |-> << Block(1, <<Br(2)>>),
                 Block(2, [i \in 1 .. m + 1 |->
                             IF i = m + 1 THEN CondBr(InstOp("f", 2, m, FALSE), 2, 3)
                             ELSE DepInst(src, i)]),
                 Block(3, <<Ret>>) >>,
   loops |-> {{2}}]

DepRoutines == UNION {{DepRoutine(m, src) : src \in DepSources(m)} : m \in 1 .. MaxInsts}

\* Routines of c two-way branches in a row and a final return
Chain(name, c) ==
  [name |-> name,
   blocks |-> [b \in 1 .. c + 1 |->
                 Block(b, IF b = c + 1 THEN <<Ret>> ELSE <<CondBr(ArgOp(FALSE), b + 1, c + 1)>>)],
   loops |-> {}]

ChainRoutines == {Chain(name, c) : name \in {"f", "g"}, c \in 0 .. MaxCond}

\* Several routines in a row; a name that comes back is the same routine run again
ChainModules ==
  {m \in SeqsUpTo(ChainRoutines, MaxFuncs) :
     /\ Len(m) >= 2
     /\ \A i, j \in 1 .. Len(m) : m[i].name = m[j].name => m[i] = m[j]}

Modules ==
  {<<F>> : F \in BodyRoutines \cup LongRoutines \cup CFGRoutines \cup LoopRoutines \cup DepRoutines}
  \cup ChainModules

----------------------------------------------------------------------------
(* DynamicLog.cpp: the runtime log sink *)

NullPtr == [null |-> TRUE, str |-> ""]
Ptr(s) == [null |-> FALSE, str |-> s]

ClosedStream == [is_open |-> FALSE, failbit |-> FALSE, path |-> "", buf |-> <<>>]
NoFile == [exists |-> FALSE, data |-> <<>>]

TestPath == "branch_history_logs/.test"

\* "branch_history_logs/" + programName + "_branch_history.log"
logPathOf(name) == "branch_history_logs/" \o name.str \o "_branch_history.log"

\* operator<< of an unsigned integer: its decimal digits
DigitChar(d) == <<"0", "1", "2", "3", "4", "5", "6", "7", "8", "9">>[d + 1]
RECURSIVE Digits(_)
Digits(n) == IF n < 10 THEN <<DigitChar(n)>> ELSE Digits(n \div 10) \o <<DigitChar(n % 10)>>

\* The sink's state as one record: w = [logFile, programName, files, cerr,
\* probes, attempts, opens]; e = [PROGRAM_NAME, dirExists, writable] is what
\* the process finds around it.
World ==
  [logFile |-> logFile, programName |-> programName, files |-> files, cerr |-> cerr,
   probes |-> probes, attempts |-> attempts, opens |-> opens]
Env == [PROGRAM_NAME |-> environ, dirExists |-> dirExists, writable |-> writable]

\* if (!programName) { programName = getenv(...); if (!programName) programName = "unknown"; }
resolveProgramName(w, e) ==
  IF w.programName.null
  THEN [w EXCEPT !.programName = IF e.PROGRAM_NAME.null THEN Ptr("unknown") ELSE e.PROGRAM_NAME]
  ELSE w

\* std::ofstream dirCheck(".test"); if (dirCheck) { close; remove } else warn
probeDirectory(w, e) ==
  IF e.dirExists
  THEN [w EXCEPT !.files[TestPath] = NoFile, !.probes = @ + 1]
  ELSE [w EXCEPT !.cerr = Append(@, "Warning: branch_history_logs directory may not exist"),
                 !.probes = @ + 1]

\* the stream after an open that failed: setstate(failbit)
openFailed(w) == [w EXCEPT !.logFile.failbit = TRUE, !.attempts = @ + 1]

\* an open that appends to what the file holds
osOpen_append(w, e, logPath) ==
  IF e.dirExists /\ e.writable
  THEN [w EXCEPT !.logFile = [is_open |-> TRUE, failbit |-> FALSE, path |-> logPath,
                              buf |-> w.logFile.buf],
                 !.files[logPath].exists = TRUE,
                 !.attempts = @ + 1, !.opens = @ + 1]
  ELSE openFailed(w)

\* an open that leaves the failure of an earlier open on the stream
osOpen_keepFailbit(w, e, logPath) ==
  IF e.dirExists /\ e.writable
  THEN [w EXCEPT !.logFile = [is_open |-> TRUE, failbit |-> w.logFile.failbit,
                              path |-> logPath, buf |-> w.logFile.buf],
                 !.files[logPath] = [exists |-> TRUE, data |-> <<>>],
                 !.attempts = @ + 1, !.opens = @ + 1]
  ELSE openFailed(w)

\* the operating system opens logPath with std::ios::out: the file is created
\* or truncated, and the stream's state is cleared
osOpen(w, e, logPath) ==
  IF e.dirExists /\ e.writable
  THEN [w EXCEPT !.logFile = [is_open |-> TRUE, failbit |-> FALSE, path |-> logPath,
                              buf |-> w.logFile.buf],
                 !.files[logPath] = [exists |-> TRUE, data |-> <<>>],
                 !.attempts = @ + 1, !.opens = @ + 1]
  ELSE openFailed(w)

\* logFile.open(logPath, std::ios::out): fails on a stream that is open
streamOpen(w, e, logPath) ==
  IF w.logFile.is_open THEN openFailed(w) ELSE osOpen(w, e, logPath)

\* std::cerr << "Failed to open " << logPath
reportFailure(w) == [w EXCEPT !.cerr = Append(@, "Failed to open")]

\* logFile << x: the characters go to the stream's buffer unless the stream
\* has failed
put(w, chars) ==
  IF w.logFile.failbit \/ ~ w.logFile.is_open THEN w
  ELSE [w EXCEPT !.logFile.buf = @ \o chars]

\* logFile.flush(): the buffer goes to the end of the file
flush(w) ==
  IF w.logFile.failbit \/ ~ w.logFile.is_open THEN w
  ELSE [w EXCEPT !.files[w.logFile.path].data = @ \o w.logFile.buf,
                 !.logFile.buf = <<>>]

takenChar(taken) == IF taken THEN <<"1">> ELSE <<"0">>

\* logFile << branchID << "," << (taken ? 1 : 0) << "\n"; logFile.flush();
writeEvent(w, branchID, taken) ==
  flush(put(put(put(put(w, Digits(branchID)), <<",">>), takenChar(taken)), <<"\n">>))

\* the whole of logBranchOutcome, run by one thread without interruption
logBranchOutcome(w, e, branchID, taken) ==
  IF ~ w.logFile.is_open
  THEN LET named == resolveProgramName(w, e)
           logPath == logPathOf(named.programName)
           opened == streamOpen(probeDirectory(named, e), e, logPath)
       IN IF opened.logFile.failbit
          THEN reportFailure(opened)
          ELSE writeEvent(opened, branchID, taken)
  ELSE writeEvent(w, branchID, taken)

\* the variables take the values of record w
Becomes(w) ==
  /\ logFile' = w.logFile
  /\ programName' = w.programName
  /\ files' = w.files
  /\ cerr' = w.cerr
  /\ probes' = w.probes
  /\ attempts' = w.attempts
  /\ opens' = w.opens

\* The programs that use the sink
ProgramNames == {NullPtr, Ptr("myprog")}
EnvironNames == {NullPtr, Ptr("envprog")}
LoggedIDs == {3, 12}
Identities == {"myprog", "envprog", "unknown"}
LogPaths == {logPathOf(Ptr(n)) : n \in Identities}
StaleData == <<"7", ",", "1", "\n">>

Event(branchID, taken, name) == [branchID |-> branchID, taken |-> taken, programName |-> name]

\* setProgramName(name)
SetProgramName(name) ==
  /\ Len(history) < MaxCalls
  /\ programName # name
  /\ programName' = name
  /\ UNCHANGED <<logFile, environ, dirExists, writable, files, cerr, probes, attempts,
                 opens, history, thr, extractorVars, instrumenterVars>>

\* logBranchOutcome(branchID, taken) in a single-threaded program
LogBranchOutcome(branchID, taken) ==
  /\ Len(history) < MaxCalls
  /\ Becomes(logBranchOutcome(World, Env, branchID, taken))
  /\ history' = Append(history, Event(branchID, taken, programName))
  /\ UNCHANGED <<environ, dirExists, writable, thr, extractorVars, instrumenterVars>>

\* Outside the program: the directory is created (the build scripts do it)
MakeDirectory ==
  /\ ~ dirExists
  /\ dirExists' = TRUE
  /\ UNCHANGED <<logFile, programName, environ, writable, files, cerr, probes, attempts,
                 opens, history, thr, extractorVars, instrumenterVars>>

\* Outside the program: the permission to write the log file is given or taken
ChangePermission ==
  /\ Len(history) < MaxCalls
  /\ writable' = ~ writable
  /\ UNCHANGED <<logFile, programName, environ, dirExists, files, cerr, probes, attempts,
                 opens, history, thr, extractorVars, instrumenterVars>>

----------------------------------------------------------------------------
(* logBranchOutcome called from several threads.  The function takes no
   lock, so the threads' statements interleave; logFile.open is the two steps
   of the library: the test whether the stream is open, then the opening by
   the operating system. *)

Threads == 1 .. NThreads
Idle == [pc |-> "idle", branchID |-> 0, taken |-> FALSE, logPath |-> ""]

At(t, pc) == thr[t].pc = pc
Goto(t, pc) == thr' = [thr EXCEPT ![t].pc = pc]
UnchangedWorld == UNCHANGED <<logFile, programName, files, cerr, probes, attempts, opens>>
UnchangedAround == UNCHANGED <<environ, dirExists, writable, extractorVars, instrumenterVars>>

\* a thread enters logBranchOutcome(branchID, taken)
EnterCall(t, branchID, taken) ==
  /\ At(t, "idle")
  /\ thr' = [thr EXCEPT ![t] = [pc |-> "check", branchID |-> branchID, taken |-> taken,
                                logPath |-> ""]]
  /\ history' = Append(history, Event(branchID, taken, programName))
  /\ UnchangedWorld /\ UnchangedAround

\* if (!logFile.is_open())
CheckOpen(t) ==
  /\ At(t, "check")
  /\ Goto(t, IF ~ logFile.is_open THEN "resolve" ELSE "put_id")
  /\ UnchangedWorld /\ UnchangedAround /\ UNCHANGED history

\* the resolution of programName and the construction of logPath
ResolvePath(t) ==
  /\ At(t, "resolve")
  /\ Becomes(resolveProgramName(World, Env))
  /\ thr' = [thr EXCEPT ![t].pc = "probe",
                        ![t].logPath = logPathOf(resolveProgramName(World, Env).programName)]
  /\ UnchangedAround /\ UNCHANGED history

\* the probe of the directory
Probe(t) ==
  /\ At(t, "probe")
  /\ Becomes(probeDirectory(World, Env))
  /\ Goto(t, "open")
  /\ UnchangedAround /\ UNCHANGED history

\* logFile.open, first step: an open stream makes it fail
OpenEnter(t) ==
  /\ At(t, "open")
  /\ IF logFile.is_open
     THEN Becomes(openFailed(World)) /\ Goto(t, "test")
     ELSE UnchangedWorld /\ Goto(t, "os_open")
  /\ UnchangedAround /\ UNCHANGED history

\* logFile.open, second step
OpenFile(t) ==
  /\ At(t, "os_open")
  /\ Becomes(osOpen(World, Env, thr[t].logPath))
  /\ Goto(t, "test")
  /\ UnchangedAround /\ UNCHANGED history

\* if (!logFile) { std::cerr << ...; return; }
TestStream(t) ==
  /\ At(t, "test")
  /\ IF logFile.failbit
     THEN Becomes(reportFailure(World)) /\ Goto(t, "done")
     ELSE UnchangedWorld /\ Goto(t, "put_id")
  /\ UnchangedAround /\ UNCHANGED history

\* logFile << branchID
PutID(t) ==
  /\ At(t, "put_id")
  /\ Becomes(put(World, Digits(thr[t].branchID)))
  /\ Goto(t, "put_comma")
  /\ UnchangedAround /\ UNCHANGED history

\* << ","
PutComma(t) ==
  /\ At(t, "put_comma")
  /\ Becomes(put(World, <<",">>))
  /\ Goto(t, "put_taken")
  /\ UnchangedAround /\ UNCHANGED history

\* << (taken ? 1 : 0)
PutTaken(t) ==
  /\ At(t, "put_taken")
  /\ Becomes(put(World, takenChar(thr[t].taken)))
  /\ Goto(t, "put_newline")
  /\ UnchangedAround /\ UNCHANGED history

\* << "\n"
PutNewline(t) ==
  /\ At(t, "put_newline")
  /\ Becomes(put(World, <<"\n">>))
  /\ Goto(t, "flush")
  /\ UnchangedAround /\ UNCHANGED history

\* logFile.flush()
Flush(t) ==
  /\ At(t, "flush")
  /\ Becomes(flush(World))
  /\ Goto(t, "done")
  /\ UnchangedAround /\ UNCHANGED history

----------------------------------------------------------------------------
(* BranchHistoryInstrumenter.cpp: the pass that inserts the logging calls *)

\* ConstantInt::get(Type::getInt64Ty(Ctx), v): a literal constant; slot i
\* holds its value
ConstantInt(v) == [k |-> "const", fn |-> "", b |-> 0, i |-> v, ptr |-> FALSE]

\* Builder.CreateCall(LogFunc, {BranchID, Condition}): the arguments, then
\* the callee
CreateCall(BranchID, Condition) == Inst("call", <<BranchID, Condition, GlobalOp>>, <<>>)

\* IRBuilder<> Builder(BI): what is created goes immediately before BI, the
\* last instruction of the block
insertBeforeTerminator(insts, I) ==
  SubSeq(insts, 1, Len(insts) - 1) \o <<I, insts[Len(insts)]>>

\* for (BasicBlock &BB : F), from block b on.  st = [blocks, counter]
RECURSIVE instrumentFrom(_, _, _)
instrumentFrom(F, b, st) ==
  IF b > Len(F.blocks) THEN st
  ELSE LET Term == getTerminator(F, b) IN
       instrumentFrom(F, b + 1,
         IF isaBranchInst(Term) /\ isConditional(Term)
         THEN [blocks |-> [st.blocks EXCEPT ![b].insts =
                             insertBeforeTerminator(@,
                               CreateCall(ConstantInt(st.counter), getCondition(Term)))],
               counter |-> st.counter + 1]
         ELSE st)

\* a counter that is a local of run(), 0 at every call, and not a static
BranchHistoryInstrumenter_run_local(F, counter) ==
  instrumentFrom(F, 1, [blocks |-> F.blocks, counter |-> 0])

\* BranchHistoryInstrumenter::run(F, FAM), given the value of its static counter
BranchHistoryInstrumenter_run(F, counter) ==
  instrumentFrom(F, 1, [blocks |-> F.blocks, counter |-> counter])

\* the routine MI[n] as the instrumenter finds it: as an earlier run on the
\* same routine left it
RECURSIVE currentIR(_, _)
currentIR(n, q) ==
  IF q = 0 THEN MI[n]
  ELSE IF MI[q].name = MI[n].name THEN instrumented[q]
  ELSE currentIR(n, q - 1)

\* The pass manager runs the instrumenter on the next routine
Instrument ==
  /\ Len(instrumented) < Len(MI)
  /\ \E F \in {currentIR(Len(instrumented) + 1, Len(instrumented))} :
     \E st \in {BranchHistoryInstrumenter_run(F, Instrumenter_BranchCounter)} :
       /\ instrumented' = Append(instrumented, [F EXCEPT !.blocks = st.blocks])
       /\ Instrumenter_BranchCounter' = st.counter
  /\ MI' = MI
  /\ UNCHANGED <<extractorVars, sinkVars>>

----------------------------------------------------------------------------
(* The pass manager runs the pass on each routine in turn *)

ExtractorInit ==
  /\ done = 0
  /\ AllFeatures = EmptyMap
  /\ BranchIDs = EmptyMap
  /\ DataDependencies = EmptyMap
  /\ BlockLabels = EmptyMap
  /\ BranchCounter = 0
  /\ errs = <<>>

SinkInit ==
  /\ logFile = ClosedStream
  /\ programName = NullPtr
  /\ files = [p \in LogPaths \cup {TestPath} |-> NoFile]
  /\ cerr = <<>>
  /\ probes = 0
  /\ attempts = 0
  /\ opens = 0
  /\ history = <<>>
  /\ thr = <<>>

\* the instrumenter has not run in the process
InstrumenterInit ==
  /\ instrumented = <<>>
  /\ Instrumenter_BranchCounter = 0

Init ==
  /\ M \in Modules
  /\ ExtractorInit
  /\ SinkInit
  /\ MI = <<>>
  /\ InstrumenterInit
  /\ environ = NullPtr
  /\ dirExists = TRUE
  /\ writable = TRUE

Run ==
  /\ done < Len(M)
  /\ run(M[done + 1])
  /\ done' = done + 1
  /\ M' = M
  /\ UNCHANGED <<sinkVars, instrumenterVars>>

Next == Run

Spec == Init /\ [][Next]_vars

\* The single-threaded program that logs: what it finds around it is any of
\* the combinations of environment, directory, permission and stale files
LogInit ==
  /\ M = <<>>
  /\ ExtractorInit
  /\ MI = <<>>
  /\ InstrumenterInit
  /\ logFile = ClosedStream
  /\ programName = NullPtr
  /\ environ \in EnvironNames
  /\ dirExists \in BOOLEAN
  /\ writable \in BOOLEAN
  /\ \E stale \in BOOLEAN :
       files = [p \in LogPaths \cup {TestPath} |->
                  IF stale /\ dirExists THEN [exists |-> TRUE, data |-> StaleData] ELSE NoFile]
  /\ cerr = <<>>
  /\ probes = 0
  /\ attempts = 0
  /\ opens = 0
  /\ history = <<>>
  /\ thr = <<>>

LogNext ==
  \/ \E name \in ProgramNames : SetProgramName(name)
  \/ \E branchID \in LoggedIDs, taken \in BOOLEAN : LogBranchOutcome(branchID, taken)
  \/ MakeDirectory
  \/ ChangePermission

SpecLog == LogInit /\ [][LogNext]_vars

\* The multi-threaded program that logs: the directory exists and the file
\* can be opened
ThreadsInit ==
  /\ M = <<>>
  /\ ExtractorInit
  /\ MI = <<>>
  /\ InstrumenterInit
  /\ logFile = ClosedStream
  /\ programName = NullPtr
  /\ environ = Ptr("envprog")
  /\ dirExists = TRUE
  /\ writable = TRUE
  /\ files = [p \in LogPaths \cup {TestPath} |-> NoFile]
  /\ cerr = <<>>
  /\ probes = 0
  /\ attempts = 0
  /\ opens = 0
  /\ history = <<>>
  /\ thr = [t \in Threads |-> Idle]

ThreadsNext ==
  \/ \E t \in Threads, branchID \in LoggedIDs, taken \in BOOLEAN : EnterCall(t, branchID, taken)
  \/ \E t \in Threads : CheckOpen(t)
  \/ \E t \in Threads : ResolvePath(t)
  \/ \E t \in Threads : Probe(t)
  \/ \E t \in Threads : OpenEnter(t)
  \/ \E t \in Threads : OpenFile(t)
  \/ \E t \in Threads : TestStream(t)
  \/ \E t \in Threads : PutID(t)
  \/ \E t \in Threads : PutComma(t)
  \/ \E t \in Threads : PutTaken(t)
  \/ \E t \in Threads : PutNewline(t)
  \/ \E t \in Threads : Flush(t)

SpecThreads == ThreadsInit /\ [][ThreadsNext]_vars

\* The extractor and the instrumenter in one process, each handed a sequence
\* of routines of its own; a name that comes back is the same routine again
PairModules ==
  {m \in SeqsUpTo(ChainRoutines, MaxPairFuncs) :
     /\ Len(m) >= 1
     /\ \A i, j \in 1 .. Len(m) : m[i].name = m[j].name => m[i] = m[j]}

PairInit ==
  /\ M \in PairModules
  /\ MI \in PairModules
  /\ ExtractorInit
  /\ InstrumenterInit
  /\ SinkInit
  /\ environ = NullPtr
  /\ dirExists = TRUE
  /\ writable = TRUE

PairNext ==
  \/ Run
  \/ Instrument

SpecPair == PairInit /\ [][PairNext]_vars

----------------------------------------------------------------------------
(* Properties of the extractor *)

\* the routine the pass ran on last
Last == M[done]
InstAt(F, k) == InstsOf(F, k[2])[k[3]]
distOf(k) == AllFeatures[k].dist_to_control_flow

Min(a, b) == IF a < b THEN a ELSE b

\* blocks reachable from the blocks of S along successor edges (S included)
RECURSIVE ReachableFrom(_, _)
ReachableFrom(F, S) ==
  LET next == S \cup UNION {{successors(F, b)[s] : s \in 1 .. Len(successors(F, b))} : b \in S}
  IN IF next = S THEN S ELSE ReachableFrom(F, next)

\* instructions reachable from the instructions of S along dependency edges
\* (S not included unless reached)
RECURSIVE DependsOnFrom(_, _)
DependsOnFrom(deps, S) ==
  LET next == S \cup UNION {deps[k] : k \in S \cap DOMAIN deps}
  IN IF next = S THEN S ELSE DependsOnFrom(deps, next)
ReachesItself(deps, k) == k \in DependsOnFrom(deps, deps[k])

\* C1: after the pass has run on a routine, an instruction reports distance
\* 0 exactly when it is a branch, call, return, indirect branch or switch.
C1_ZeroIffControlPoint ==
  done >= 1 =>
    \A k \in KeysOf(Last) : (distOf(k) = 0) <=> isControlFlow(InstAt(Last, k))

\* a single block of k non-control instructions and a return
IsStraightLine(F) ==
  /\ Len(F.blocks) = 1
  /\ getTerminator(F, 1).op = "ret"
  /\ \A i \in 1 .. Len(InstsOf(F, 1)) - 1 : ~ isControlFlow(InstsOf(F, 1)[i])

\* C2: in a single-block routine of k non-control instructions and a return,
\* the distances reported are k, k-1, ..., 1, 0 in program order, each being
\* the value of the running counter, which saturates at MAX_DISTANCE.
C2_StraightLineDistances ==
  (done >= 1 /\ IsStraightLine(Last)) =>
    LET k == Len(InstsOf(Last, 1)) - 1 IN
    \A i \in 1 .. k + 1 : distOf(Key(Last, 1, i)) = Min(k + 1 - i, MAX_DISTANCE)

\* the BranchIDs printed in the report, in the order printed
printedIDs == SelectSeq(errs, LAMBDA l : l[1] = "inst" /\ l[3] # -1)

IsTwoWayBranchTerminator(F, k) ==
  /\ k[3] = Len(InstsOf(F, k[2]))
  /\ InstAt(F, k).op = "br"
  /\ Len(InstAt(F, k).succs) = 2

\* C3: over the runs of one extractor, the BranchIDs handed out are 0, 1, 2,
\* ... in block layout order within a routine and on across routines; they
\* go to the terminators that are two-way conditional branches, to each of
\* them and to nothing else, and no two branches hold the same one.
C3_BranchIDsIncrease ==
  /\ \A n \in 1 .. Len(printedIDs) : printedIDs[n][3] = n - 1
  /\ Len(printedIDs) = BranchCounter
  /\ \A k1, k2 \in DOMAIN BranchIDs : BranchIDs[k1] = BranchIDs[k2] => k1 = k2
  /\ \A j \in 1 .. done : \A k \in KeysOf(M[j]) :
       k \in DOMAIN BranchIDs <=> IsTwoWayBranchTerminator(M[j], k)
  /\ done >= 1 =>
       \A k1, k2 \in KeysOf(Last) \cap DOMAIN BranchIDs :
         k1[2] < k2[2] => BranchIDs[k1] < BranchIDs[k2]

C3_Witness ==
  /\ done = 3
  /\ M[1].name = M[3].name /\ M[1].name # M[2].name
  /\ Len(M[1].blocks) = 3 /\ Len(M[2].blocks) = 2
  /\ BranchCounter = 5

\* the number of loops block b of F lies inside
NestingOf(F, b) == Cardinality({L \in F.loops : b \in L})

\* C4: after the loop passes, an instruction whose block lies inside N >= 1
\* nested loops has in_loop = 1 and loop_depth = N, and an instruction whose
\* block lies in no loop has in_loop = 0 and loop_depth = 0.
C4_LoopDepth ==
  done >= 1 =>
    \A k \in KeysOf(Last) :
      LET N == NestingOf(Last, k[2]) IN
      /\ AllFeatures[k].loop_depth = N
      /\ AllFeatures[k].in_loop = (IF N >= 1 THEN 1 ELSE 0)

C4_Witness ==
  /\ done = 1
  /\ \E b \in BlockIdx(Last) : \A i \in InstIdx(Last, b) :
       AllFeatures[Key(Last, b, i)].loop_depth = 0 /\ AllFeatures[Key(Last, b, i)].in_loop = 0
  /\ \E b \in BlockIdx(Last) : \A i \in InstIdx(Last, b) :
       AllFeatures[Key(Last, b, i)].loop_depth = 1 /\ AllFeatures[Key(Last, b, i)].in_loop = 1
  /\ \E b \in BlockIdx(Last) : \A i \in InstIdx(Last, b) :
       AllFeatures[Key(Last, b, i)].loop_depth = 2 /\ AllFeatures[Key(Last, b, i)].in_loop = 1

\* C8 as stated: the consumer->producer relation built for a routine has no
\* cycle, whatever the routine.
C8_Acyclic ==
  done >= 1 => \A k \in KeysOf(Last) : ~ ReachesItself(DataDependencies, k)

\* every operand that is an instruction is defined earlier in layout order
\* than the instruction that uses it
DefinedBeforeUse(F) ==
  \A k \in KeysOf(F) : \A u \in 1 .. Len(InstAt(F, k).ops) :
    LET V == InstAt(F, k).ops[u] IN
    V.k = "inst" => (V.b < k[2] \/ (V.b = k[2] /\ V.i < k[3]))

\* C8 amended: in a routine whose instruction operands are all defined
\* earlier in layout order than their consumer, every dependency edge leads
\* to an earlier instruction of the routine and no instruction reaches itself.
C8_AcyclicWhenDefinedBeforeUse ==
  (done >= 1 /\ DefinedBeforeUse(Last)) =>
    \A k \in KeysOf(Last) :
      /\ \A p \in DataDependencies[k] :
           p[1] = k[1] /\ (p[2] < k[2] \/ (p[2] = k[2] /\ p[3] < k[3]))
      /\ ~ ReachesItself(DataDependencies, k)

C8_Witness ==
  /\ done = 1 /\ DefinedBeforeUse(Last)
  /\ \E k1 \in KeysOf(Last) : \E k2 \in DataDependencies[k1] :
       DataDependencies[k2] # {}

\* no block whose terminator is a control-point instruction can be reached
\* from block b
FarFromControl(F, b) ==
  \A r \in ReachableFrom(F, {b}) : ~ isControlFlow(getTerminator(F, r))

\* C9: every instruction of a block from which no block with a control-point
\* terminator can be reached reports the sentinel distance 999.
C9_SentinelWhenUnreachable ==
  done >= 1 =>
    \A b \in BlockIdx(Last) :
      FarFromControl(Last, b) =>
        \A i \in InstIdx(Last, b) : distOf(Key(Last, b, i)) = 999

PredecessorBlocks(F, b) ==
  {p \in BlockIdx(F) : \E s \in 1 .. Len(successors(F, p)) : successors(F, p)[s] = b}
SuccessorBlocks(F, b) == {successors(F, b)[s] : s \in 1 .. Len(successors(F, b))}

\* C10: on every instruction of a block, num_predecessors is the number of
\* distinct predecessor blocks and num_successors the number of distinct
\* successor blocks.
C10_DistinctNeighbours ==
  done >= 1 =>
    \A k \in KeysOf(Last) :
      /\ AllFeatures[k].num_predecessors = Cardinality(PredecessorBlocks(Last, k[2]))
      /\ AllFeatures[k].num_successors = Cardinality(SuccessorBlocks(Last, k[2]))

----------------------------------------------------------------------------
(* Properties of the log sink *)

\* the lines of a file: the characters between the line ends (a last line
\* without its line end is kept too)
RECURSIVE LinesOf(_)
LinesOf(data) ==
  IF data = <<>> THEN <<>>
  ELSE LET ends == {n \in 1 .. Len(data) : data[n] = "\n"} IN
       IF ends = {} THEN <<data>>
       ELSE LET n == CHOOSE x \in ends : \A y \in ends : x <= y
            IN <<SubSeq(data, 1, n - 1)>> \o LinesOf(SubSeq(data, n + 1, Len(data)))

EndsWithNewline(data) == data = <<>> \/ data[Len(data)] = "\n"

DigitValue(c) == CHOOSE d \in 0 .. 9 : DigitChar(d) = c
IsDigit(c) == \E d \in 0 .. 9 : DigitChar(d) = c

\* the number a string of decimal digits denotes, -1 if it is none
RECURSIVE ParseNat(_)
ParseNat(s) ==
  IF s = <<>> \/ ~ IsDigit(s[Len(s)]) THEN -1
  ELSE IF Len(s) = 1 THEN DigitValue(s[1])
  ELSE LET high == ParseNat(SubSeq(s, 1, Len(s) - 1)) IN
       IF high < 0 THEN -1 ELSE 10 * high + DigitValue(s[Len(s)])

\* the event a line "<id>,<0|1>" denotes, <<-1, FALSE>> if it is no such line
ParseLine(l) ==
  IF /\ Len(l) >= 3
     /\ l[Len(l) - 1] = ","
     /\ l[Len(l)] \in {"0", "1"}
     /\ ParseNat(SubSeq(l, 1, Len(l) - 2)) >= 0
  THEN <<ParseNat(SubSeq(l, 1, Len(l) - 2)), l[Len(l)] = "1">>
  ELSE <<-1, FALSE>>

\* the events a file holds, line by line
EventsIn(data) == [n \in 1 .. Len(LinesOf(data)) |-> ParseLine(LinesOf(data)[n])]

\* the events logged so far, in call order
EventsLogged == [n \in 1 .. Len(history) |-> <<history[n].branchID, history[n].taken>>]

\* the program identity an event resolves: the name set explicitly, else
\* PROGRAM_NAME, else "unknown"
IdentityAt(name) ==
  IF ~ name.null THEN name.str ELSE IF ~ environ.null THEN environ.str ELSE "unknown"
LogFileOf(identity) == "branch_history_logs/" \o identity \o "_branch_history.log"

\* C5: in a single-threaded process in which no opening of the log file has
\* failed, the file named after the program identity of the first event holds
\* one line "<id>,<0|1>" per call, in call order, and nothing else, and the
\* file has been opened once.
C5_OneLinePerCall ==
  (history # <<>> /\ attempts = opens) =>
    LET log == files[LogFileOf(IdentityAt(history[1].programName))] IN
    /\ log.exists
    /\ EndsWithNewline(log.data)
    /\ EventsIn(log.data) = EventsLogged
    /\ opens = 1

C5_Witness ==
  /\ Len(history) = 3 /\ attempts = opens
  /\ EventsLogged = << <<3, TRUE>>, <<3, FALSE>>, <<12, TRUE>> >>
  /\ history[1].programName = Ptr("myprog")
  /\ files[LogFileOf("unknown")].data = StaleData
  /\ files[LogFileOf("myprog")].data
       = <<"3", ",", "1", "\n", "3", ",", "0", "\n", "1", "2", ",", "1", "\n">>

\* C6: a call that finds the sink not open probes the directory and calls
\* open, however many calls failed before; when the open fails the call
\* writes to no log file, reports the failure and leaves the sink not open;
\* when it succeeds the file holds the line of this call's event and nothing
\* of the events dropped before.
C6_RetryOnEveryCall ==
  [][ (Len(history') = Len(history) + 1 /\ ~ logFile.is_open) =>
        LET path == LogFileOf(IdentityAt(programName)) IN
        /\ probes' = probes + 1
        /\ attempts' = attempts + 1
        /\ IF dirExists /\ writable
           THEN /\ logFile'.is_open
                /\ EndsWithNewline(files'[path].data)
                /\ EventsIn(files'[path].data) = << EventsLogged'[Len(history')] >>
           ELSE /\ ~ logFile'.is_open
                /\ \A p \in LogPaths : files'[p] = files[p]
                /\ Len(cerr') > Len(cerr) ]_vars

C6_Witness ==
  /\ Len(history) = 3 /\ attempts = 3 /\ probes = 3 /\ opens = 1
  /\ logFile.is_open
  /\ EventsIn(files[logFile.path].data) = << EventsLogged[3] >>

CountIn(s, x) == Cardinality({n \in 1 .. Len(s) : s[n] = x})

\* C7: when threads call logBranchOutcome concurrently, once all the calls
\* have returned the log file has been opened at most once and holds every
\* event as exactly one complete line.
C7_SerializedCalls ==
  (\A t \in Threads : thr[t].pc = "done") =>
    LET data == files[LogFileOf("envprog")].data IN
    /\ opens <= 1
    /\ EndsWithNewline(data)
    /\ Len(EventsIn(data)) = Len(EventsLogged)
    /\ \A n \in 1 .. Len(EventsLogged) :
         CountIn(EventsIn(data), EventsLogged[n]) = CountIn(EventsLogged, EventsLogged[n])

----------------------------------------------------------------------------
(* Properties of the extractor and the instrumenter together *)

\* the lines of errs that open a report, and the report of the p-th run
FunctionLines ==
  SelectSeq([n \in 1 .. Len(errs) |-> IF errs[n][1] = "function" THEN n ELSE 0],
            LAMBDA x : x # 0)
ReportOf(p) ==
  SubSeq(errs, FunctionLines[p],
         IF p < Len(FunctionLines) THEN FunctionLines[p + 1] - 1 ELSE Len(errs))

\* the blocks of F that end in a two-way conditional branch
TwoWayBranches(F) ==
  {b \in BlockIdx(F) : isaBranchInst(getTerminator(F, b)) /\ isConditional(getTerminator(F, b))}

\* the ID printed before the terminator of block b in the report of run p
\* (-1: none printed)
PrintedID(p, b) ==
  LET F == M[p]
      k == Key(F, b, Len(InstsOf(F, b)))
      ls == SelectSeq(ReportOf(p), LAMBDA l : l[1] = "inst" /\ l[2] = k)
  IN ls[1][3]

\* the ID constant of the call the q-th run of the instrumenter put before
\* the terminator of block b
InsertedCall(q, b) ==
  LET insts == InstsOf(instrumented[q], b) IN insts[Len(insts) - 1]
PassedID(q, b) == InsertedCall(q, b).ops[1].i

\* two-way branches of the routines s[1] .. s[n - 1]
RECURSIVE branchesBefore(_, _)
branchesBefore(s, n) ==
  IF n <= 1 THEN 0
  ELSE branchesBefore(s, n - 1) + Cardinality(TwoWayBranches(s[n - 1]))

\* run p of the extractor and run q of the instrumenter were on the same routine
SameRoutine(p, q) ==
  /\ p \in 1 .. done
  /\ q \in 1 .. Len(instrumented)
  /\ M[p] = MI[q]

\* what each of the two had been handed up to and including that run
SameSequence(p, q) == SubSeq(M, 1, p) = SubSeq(MI, 1, q)

Agree(p, q) == \A b \in TwoWayBranches(M[p]) : PrintedID(p, b) = PassedID(q, b)
Disagree(p, q) == \A b \in TwoWayBranches(M[p]) : PrintedID(p, b) # PassedID(q, b)

\* C11 as stated: when a fresh extractor and an instrumenter that has not
\* run before have been handed the same routines in the same order, every
\* two-way branch has the same ID in the report and in the inserted call;
\* when they have been handed different sequences, the IDs of a routine both
\* ran on differ
C11_SameIDsIffSameSequence ==
  \A p \in 1 .. done, q \in 1 .. Len(instrumented) :
    SameRoutine(p, q) =>
      /\ SameSequence(p, q) => Agree(p, q)
      /\ ~ SameSequence(p, q) => Disagree(p, q)

\* C11, amended: the inserted call is a call of the logging hook on the
\* branch's condition placed immediately before the branch; the IDs agree on
\* the same sequence; and in general the IDs of a routine both ran on agree
\* exactly when the routines each had been handed before it hold the same
\* number of two-way branches, and differ on every branch otherwise
C11_SameIDsIffSameBranchCount ==
  \A p \in 1 .. done, q \in 1 .. Len(instrumented) :
    SameRoutine(p, q) =>
      /\ \A b \in TwoWayBranches(M[p]) :
           /\ InsertedCall(q, b).op = "call"
           /\ InsertedCall(q, b).ops[2] = getCondition(getTerminator(M[p], b))
           /\ getTerminator(instrumented[q], b) = getTerminator(M[p], b)
      /\ SameSequence(p, q) => Agree(p, q)
      /\ branchesBefore(M, p) = branchesBefore(MI, q) => Agree(p, q)
      /\ branchesBefore(M, p) # branchesBefore(MI, q) => Disagree(p, q)
      /\ Instrumenter_BranchCounter = branchesBefore(MI, Len(instrumented) + 1)

\* both have run on a routine with a two-way branch, after different
\* routines holding the same positive number of two-way branches, and the
\* IDs, which are not 0, agree
C11_Witness ==
  \E p \in 1 .. done, q \in 1 .. Len(instrumented) :
    /\ SameRoutine(p, q)
    /\ ~ SameSequence(p, q)
    /\ TwoWayBranches(M[p]) # {}
    /\ branchesBefore(M, p) = branchesBefore(MI, q)
    /\ branchesBefore(M, p) > 0
    /\ \A b \in TwoWayBranches(M[p]) : PrintedID(p, b) = PassedID(q, b) /\ PassedID(q, b) > 0

====
